---- MODULE Spec2Model ----
(***************************************************************************)
(* Improv Serial codec (src/src/improv.cpp): parse_improv_data,            *)
(* parse_improv_serial_byte and build_rpc_response.                        *)
(*                                                                         *)
(* Buffers are sequences of bytes; C index k is TLA+ index k + 1.          *)
(***************************************************************************)
EXTENDS Integers, Sequences, FiniteSets, TLC

VARIABLES
  wide_index, \* the build: how it compiled the 8-bit loop counter (see NextIndex)
  call,      \* a parse_improv_data call in progress, step by step
  req,       \* the codec operation last requested and its arguments
  res,       \* what that operation returned
  position,  \* the transport: position of the next stream byte
  buffer,    \* the transport: bytes received at lower positions
  last,      \* the last parse_improv_serial_byte call and what it did
  resync     \* how far the stream fed so far ends in X M P R O V + a frame

vars == <<wide_index, call, req, res, position, buffer, last, resync>>

(* ------------------------------------------------------------------ *)
(* Values of improv.h (enum Command, enum ImprovSerialType, version). *)
(* ------------------------------------------------------------------ *)
UNKNOWN == 0
WIFI_SETTINGS == 1
GET_CURRENT_STATE == 2
GET_DEVICE_INFO == 3
GET_WIFI_NETWORKS == 4
CUSTOM == 5
BAD_CHECKSUM == 255
ERROR_INVALID_RPC == 1
TYPE_RPC == 3
IMPROV_SERIAL_VERSION == 1

(* ------------------------------------------------------------------ *)
(* Bounds of the model.                                               *)
(* ------------------------------------------------------------------ *)
\* longest input frame whose bytes are enumerated freely
MaxFrameLen == 5
\* the same for the calls followed step by step
MaxCallLen == 4
\* most fields of a response, most segments of a packed frame
MaxFields == 2
\* steps of one parse_improv_data call that ParseRun follows; a call on a
\* buffer of at most 258 bytes that returns does so in fewer steps
MaxSteps == 400

(* ------------------------------------------------------------------ *)
(* Machine arithmetic.                                                *)
(* ------------------------------------------------------------------ *)
\* uint8_t conversion
U8(x) == x % 256

\* size_t arithmetic is modulo 2^N, N >= 16 (16 on AVR, 32 or 64 elsewhere).
\* Every operand of the code is below 2^16, so a wrapped difference is
\* larger than any byte or length for every N; N = 16 is modelled.
SizeMod == 65536

SizeT(x) == x % SizeMod

\* data[k] as the code reads it through the pointer
At(data, k) == data[k + 1]

RECURSIVE SumRange(_, _, _)
\* sum of s[lo..hi], modulo 256
SumRange(s, lo, hi) ==
  IF lo > hi THEN 0
  ELSE IF lo = hi THEN U8(s[lo])
  ELSE LET mid == (lo + hi) \div 2
       IN U8(SumRange(s, lo, mid) + SumRange(s, mid + 1, hi))

\* sum of the first n bytes of s, modulo 256
SumBytes(s, n) == SumRange(s, 1, n)

(* ------------------------------------------------------------------ *)
(* parse_improv_data, one step of the call at a time.  A call is a    *)
(* record: pc, the arguments (data, length, check_checksum), the      *)
(* locals, the ImprovCommand under construction (command, segs), and  *)
(* two observations: reads, the indices of data read so far, and      *)
(* segment_reads, those of them read by the segment loop.             *)
(* calculated_checksum is a uint32_t of which line 30 uses the low    *)
(* 8 bits only; it is kept modulo 2^8, which divides 2^32, so the     *)
(* byte compared is exact whether or not the accumulator wraps.       *)
(* ------------------------------------------------------------------ *)
ParseStart(data, length, check_checksum) ==
  [pc |-> "start", data |-> data, length |-> length,
   check_checksum |-> check_checksum,
   tag |-> UNKNOWN, command |-> UNKNOWN, segs |-> << >>,
   checksum |-> 0, calculated_checksum |-> 0, i |-> 0, position |-> 0,
   reads |-> {}, segment_reads |-> {}]

checksum_offset(c) == IF c.check_checksum THEN 1 ELSE 0

\* ParseHeader with the checksum byte left out of the length check
\* (data_length != length - 2)
ParseHeader_NoOffset(c) ==
  LET command == At(c.data, 0)
      data_length == At(c.data, 1)
      c1 == [c EXCEPT !.tag = command, !.command = command,
                      !.reads = @ \cup {0, 1}]
  IN IF data_length # SizeT(c.length - 2)
       THEN [c1 EXCEPT !.command = UNKNOWN, !.pc = "done"]
       ELSE IF c.check_checksum
         THEN [c1 EXCEPT !.checksum = At(c.data, c.length - 1),
                         !.reads = @ \cup {c.length - 1},
                         !.calculated_checksum = 0, !.i = 0,
                         !.pc = "checksum_loop"]
         ELSE [c1 EXCEPT !.pc = "dispatch"]

\* lines 11-23: header, length check, entry of the checksum loop
ParseHeader(c) ==
  LET command == At(c.data, 0)
      data_length == At(c.data, 1)
      c1 == [c EXCEPT !.tag = command, !.command = command,
                      !.reads = @ \cup {0, 1}]
  IN IF data_length # SizeT(c.length - 2 - checksum_offset(c))
       THEN [c1 EXCEPT !.command = UNKNOWN, !.pc = "done"]
       ELSE IF c.check_checksum
         THEN [c1 EXCEPT !.checksum = At(c.data, c.length - 1),
                         !.reads = @ \cup {c.length - 1},
                         !.calculated_checksum = 0, !.i = 0,
                         !.pc = "checksum_loop"]
         ELSE [c1 EXCEPT !.pc = "dispatch"]

\* line 26, i++ on a uint8_t.  When the bound length - 1 exceeds 255 the
\* loop cannot end: an infinite loop without side effects is undefined
\* behaviour, and a build either keeps the 8-bit counter (it wraps to 0) or,
\* assuming the loop ends, counts in a wider register (widened).
NextIndex(i, widened) == IF widened THEN i + 1 ELSE U8(i + 1)

\* lines 26-28: one test of the loop condition and one iteration
ParseChecksumLoop(c, widened) ==
  IF c.i < SizeT(c.length - 1)
    THEN [c EXCEPT !.calculated_checksum = U8(@ + At(c.data, c.i)),
                   !.reads = @ \cup {c.i},
                   !.i = NextIndex(c.i, widened)]
    ELSE [c EXCEPT !.pc = "checksum_test"]

\* ParseChecksumTest without the return at line 32
ParseChecksumTest_NoReturn(c) ==
  IF U8(c.calculated_checksum) # c.checksum
    THEN [c EXCEPT !.command = BAD_CHECKSUM, !.pc = "dispatch"]
    ELSE [c EXCEPT !.pc = "dispatch"]

\* lines 30-33
ParseChecksumTest(c) ==
  IF U8(c.calculated_checksum) # c.checksum
    THEN [c EXCEPT !.command = BAD_CHECKSUM, !.pc = "done"]
    ELSE [c EXCEPT !.pc = "dispatch"]

\* lines 37-38 and 71-72
ParseDispatch(c) ==
  IF c.tag = WIFI_SETTINGS \/ c.tag = CUSTOM
    THEN [c EXCEPT !.position = 2, !.pc = "segment_loop"]
    ELSE [c EXCEPT !.command = c.tag, !.pc = "done"]

\* lines 39-68: one test of the loop condition and one iteration
ParseSegmentLoop(c) ==
  LET limit == SizeT(c.length - checksum_offset(c))
  IN IF ~(c.position < limit)
       THEN [c EXCEPT !.pc = "done"]
       ELSE IF SizeT(c.position + 1) > limit
         THEN [c EXCEPT !.command = UNKNOWN, !.pc = "done"]
         ELSE
           LET segment_length == At(c.data, c.position)
               c1 == [c EXCEPT !.reads = @ \cup {c.position},
                               !.segment_reads = @ \cup {c.position}]
               segment_start == SizeT(c.position + 1)
               segment_end == SizeT(segment_start + segment_length)
           IN IF segment_length > SizeT(limit - c.position - 1)
                THEN [c1 EXCEPT !.command = UNKNOWN, !.pc = "done"]
                ELSE IF segment_end > limit
                  THEN [c1 EXCEPT !.command = UNKNOWN, !.pc = "done"]
                  ELSE [c1 EXCEPT
                          !.segs = Append(@, [k \in 1..segment_length |->
                                                At(c.data, segment_start + k - 1)]),
                          !.reads = @ \cup (segment_start..(segment_end - 1)),
                          !.segment_reads = @ \cup (segment_start..(segment_end - 1)),
                          !.position = segment_end]

\* one step of a call that has not returned
ParseStep(c, widened) ==
  CASE c.pc = "start" -> ParseHeader(c)
    [] c.pc = "checksum_loop" -> ParseChecksumLoop(c, widened)
    [] c.pc = "checksum_test" -> ParseChecksumTest(c)
    [] c.pc = "dispatch" -> ParseDispatch(c)
    [] c.pc = "segment_loop" -> ParseSegmentLoop(c)

\* the call run until it returns, for at most fuel steps (the steps are
\* split in halves to keep the evaluation shallow)
RECURSIVE ParseRun(_, _, _)
ParseRun(c, widened, fuel) ==
  IF c.pc = "done" \/ fuel = 0 THEN c
  ELSE IF fuel = 1 THEN ParseStep(c, widened)
  ELSE ParseRun(ParseRun(c, widened, fuel \div 2), widened, fuel - (fuel \div 2))

\* parse_improv_data(data, length, check_checksum): returned says whether
\* the call came back; command and data are the ImprovCommand it returned
parse_improv_data(data, length, check_checksum, widened) ==
  LET c == ParseRun(ParseStart(data, length, check_checksum), widened, MaxSteps)
  IN [returned |-> c.pc = "done", command |-> c.command, data |-> c.segs,
      reads |-> c.reads, segment_reads |-> c.segment_reads]

(* ------------------------------------------------------------------ *)
(* parse_improv_serial_byte (lines 75-119).  memory is what the       *)
(* pointer buffer can reach: the bytes received at positions below    *)
(* position, followed by whatever lies behind them.  callback_result  *)
(* is what the caller's callback answers.  The result tells what the  *)
(* call returned, the arguments of its callback and on_error          *)
(* invocations in order, and the indices of buffer it read.           *)
(* ------------------------------------------------------------------ *)
SerialResult(ret, commands, errors, reads) ==
  [ret |-> ret, callback |-> commands, on_error |-> errors, reads |-> reads]

\* SerialChecksum with the loop bound i <= position
SerialChecksum_Inclusive(memory, pos) == SumBytes(memory, pos + 1)

\* lines 103-105: uint8_t sum of buffer[0 .. position - 1]
SerialChecksum(memory, pos) == SumBytes(memory, pos)

\* lines 77-91: the byte expected at positions 0 to 6
Preamble == <<73, 77, 80, 82, 79, 86, IMPROV_SERIAL_VERSION>>

\* SerialPayload starting one byte early, at buffer[8]
SerialPayload_FromLength(memory) == SubSeq(memory, 9, Len(memory))

\* lines 112-115: the payload handed to parse_improv_data
SerialPayload(memory) == SubSeq(memory, 10, Len(memory))

\* SerialPreamble keeping whatever byte arrives at position 0
SerialPreamble_AcceptFirst(pos, byte) ==
  SerialResult(pos = 0 \/ byte = Preamble[pos + 1], << >>, << >>, {})

\* SerialPreamble reporting a mismatch through on_error
SerialPreamble_SignalsError(pos, byte) ==
  IF byte = Preamble[pos + 1] THEN SerialResult(TRUE, << >>, << >>, {})
  ELSE SerialResult(FALSE, << >>, <<ERROR_INVALID_RPC>>, {})

\* lines 77-91: positions 0..6 hold I M P R O V and the version
SerialPreamble(pos, byte) ==
  SerialResult(byte = Preamble[pos + 1], << >>, << >>, {})

\* IsRpc taking every frame type for an RPC frame
IsRpc_AnyType(type) == TRUE

\* line 112
IsRpc(type) == type = TYPE_RPC

\* SerialBeyond taking the byte for position 0 of the next frame
SerialBeyond_Restart(byte) == SerialResult(byte = Preamble[1], << >>, << >>, {7, 8})

\* lines 102 and 118: position is not the checksum position
SerialBeyond(byte) == SerialResult(FALSE, << >>, << >>, {7, 8})

parse_improv_serial_byte(pos, byte, memory, callback_result, widened) ==
  IF pos <= 6 THEN SerialPreamble(pos, byte)
  ELSE IF pos <= 8 THEN SerialResult(TRUE, << >>, << >>, {})
  ELSE
    LET type == At(memory, 7)
        data_len == At(memory, 8)
    IN IF pos <= 8 + data_len THEN SerialResult(TRUE, << >>, << >>, {7, 8})
       ELSE IF pos = 8 + data_len + 1
         THEN
           LET checksum == SerialChecksum(memory, pos)
               summed == {7, 8} \cup (0..(pos - 1))
           IN IF checksum # byte
                THEN SerialResult(FALSE, << >>, <<ERROR_INVALID_RPC>>, summed)
                ELSE IF IsRpc(type)
                  THEN
                    LET command == parse_improv_data(SerialPayload(memory), data_len,
                                                     FALSE, widened)
                    IN SerialResult(callback_result,
                                    <<[command |-> command.command,
                                       data |-> command.data]>>,
                                    << >>,
                                    summed \cup {9 + k : k \in command.reads})
                  ELSE SerialResult(FALSE, << >>, << >>, summed)
         ELSE SerialBeyond(byte)

(* ------------------------------------------------------------------ *)
(* build_rpc_response (lines 121-158).  A field is the sequence of    *)
(* the bytes of its std::string.                                      *)
(* ------------------------------------------------------------------ *)
RECURSIVE DatumLength(_)
\* lines 127-129: the sum of the fields' lengths
DatumLength(datum) ==
  IF datum = << >> THEN 0 ELSE Len(Head(datum)) + DatumLength(Tail(datum))

\* lines 124-129
FrameLength(datum) == 3 + Len(datum) + DatumLength(datum)

\* line 139: the length byte of one field
FieldLengthByte(str) == U8(Len(str))

RECURSIVE CopyFields(_)
\* lines 137-143: what the loop writes from data_offset on
CopyFields(datum) ==
  IF datum = << >> THEN << >>
  ELSE <<FieldLengthByte(Head(datum))>> \o Head(datum) \o CopyFields(Tail(datum))

\* TotalLengthByte without the subtraction of data_offset
TotalLengthByte_Pos(pos, data_offset) == U8(pos)

\* line 145: pos - data_offset, stored in a byte
TotalLengthByte(pos, data_offset) == U8(pos - data_offset)

\* lines 147-156: the sum of every byte of out (the last one still 0)
BuildChecksum(out) == U8(SumBytes(out, Len(out)))

build_rpc_response(command, datum, add_checksum) ==
  LET frame_length == FrameLength(datum)
      data_offset == 2
      copied == CopyFields(datum)
      pos == data_offset + Len(copied)
      out == [k \in 1..frame_length |->
                IF k = 1 THEN command
                ELSE IF k = 2 THEN TotalLengthByte(pos, data_offset)
                ELSE IF k - data_offset <= Len(copied) THEN copied[k - data_offset]
                ELSE 0]
  IN IF add_checksum
       THEN [out EXCEPT ![frame_length] = BuildChecksum(out)]
       ELSE out

(* ------------------------------------------------------------------ *)
(* Inputs.                                                            *)
(* ------------------------------------------------------------------ *)
\* byte values of short frames: the sentinels, the two segment commands,
\* single-value commands, and small lengths
FrameBytes == {UNKNOWN, WIFI_SETTINGS, GET_CURRENT_STATE, GET_DEVICE_INFO,
               CUSTOM, BAD_CHECKSUM}

FramesUpTo(n) == UNION {[1..k -> FrameBytes] : k \in 2..n}

\* [command][n][n bytes fill][checksum]: a checksummed frame of n + 3 bytes
LongFrame(command, n, fill) ==
  LET body == <<command, n>> \o [k \in 1..n |-> fill]
  IN Append(body, SumBytes(body, n + 2))

\* frames of 256, 257 and 258 bytes
LongFrames == {LongFrame(GET_CURRENT_STATE, 253, 0),
               LongFrame(GET_CURRENT_STATE, 254, 0),
               LongFrame(WIFI_SETTINGS, 255, 0)}

\* [command][Len(payload)][payload][checksum + off]: a checksummed frame
\* around payload, its checksum byte right (off = 0) or wrong
Checksummed(command, payload, off) ==
  LET body == <<command, Len(payload)>> \o payload
  IN Append(body, U8(SumBytes(body, Len(body)) + off))

\* frames of 257 bytes: a segment frame whose first segment declares 255
\* bytes with 253 left, and a frame whose checksum byte is wrong
LongBadFrames == {Checksummed(WIFI_SETTINGS, <<255>> \o [k \in 1..253 |-> 0], 0),
                  Checksummed(GET_CURRENT_STATE, [k \in 1..254 |-> 0], 1)}

IdleCall == [ParseStart(<<0, 0>>, 2, FALSE) EXCEPT !.pc = "idle"]
IdleReq == [op |-> "idle", frame |-> << >>, check |-> FALSE,
            command |-> UNKNOWN, datum |-> << >>, add_checksum |-> FALSE,
            index |-> 0, bit |-> 0]
IdleRes == [decoded |-> [returned |-> FALSE, command |-> UNKNOWN,
                         data |-> << >>, reads |-> {}, segment_reads |-> {}],
            before |-> [returned |-> FALSE, command |-> UNKNOWN,
                        data |-> << >>, reads |-> {}, segment_reads |-> {}],
            out |-> << >>]
IdleLast == [called |-> FALSE, position |-> 0, byte |-> 0, buffer |-> << >>,
             callback_result |-> FALSE, ret |-> FALSE,
             callback |-> << >>, on_error |-> << >>, reads |-> {}]

(* ------------------------------------------------------------------ *)
(* SpecCall: one parse_improv_data call, followed step by step.       *)
(* ------------------------------------------------------------------ *)
InitCall ==
  /\ wide_index \in BOOLEAN
  /\ \E data \in FramesUpTo(MaxCallLen) \cup LongFrames, check \in BOOLEAN :
       call = ParseStart(data, Len(data), check)
  /\ req = IdleReq /\ res = IdleRes
  /\ position = 0 /\ buffer = << >> /\ last = IdleLast /\ resync = 0

notCall == <<wide_index, req, res, position, buffer, last, resync>>

Header ==
  /\ call.pc = "start"
  /\ call' = ParseHeader(call)
  /\ UNCHANGED notCall

ChecksumLoop ==
  /\ call.pc = "checksum_loop"
  /\ call' = ParseChecksumLoop(call, wide_index)
  /\ UNCHANGED notCall

ChecksumTest ==
  /\ call.pc = "checksum_test"
  /\ call' = ParseChecksumTest(call)
  /\ UNCHANGED notCall

Dispatch ==
  /\ call.pc = "dispatch"
  /\ call' = ParseDispatch(call)
  /\ UNCHANGED notCall

SegmentLoop ==
  /\ call.pc = "segment_loop"
  /\ call' = ParseSegmentLoop(call)
  /\ UNCHANGED notCall

NextCall == Header \/ ChecksumLoop \/ ChecksumTest \/ Dispatch \/ SegmentLoop

SpecCall == InitCall /\ [][NextCall]_vars

\* the thread that made the call keeps executing it
FairSpecCall == SpecCall /\ WF_vars(NextCall)

\* C3: every parse_improv_data call on a buffer of length >= 2 reaches a
\* return, with either value of check_checksum, frames of 257 and 258 bytes
\* included.
C3_EveryCallReturns == <>(call.pc = "done")

(* ------------------------------------------------------------------ *)
(* Spec: the codec's pure functions, one request per behaviour (they  *)
(* keep no state between calls), then an operation on its result.     *)
(* ------------------------------------------------------------------ *)
\* a string of n bytes, all equal
Fill(n, byte) == [k \in 1..n |-> byte]

\* short byte strings, and long ones around the one-byte limits
ShortStrings == {<< >>, <<97>>, <<97, 0>>}
LongStringLens == {127, 252, 253, 254, 255, 256}
Strings == ShortStrings \cup {Fill(n, 98) : n \in LongStringLens}

ListsUpTo(S, n) == UNION {[1..k -> S] : k \in 0..n}

\* command tags handed to the builder and the packer
Commands == {UNKNOWN, WIFI_SETTINGS, GET_CURRENT_STATE, GET_DEVICE_INFO,
             CUSTOM, BAD_CHECKSUM}

SingleValue(command) == command # WIFI_SETTINGS /\ command # CUSTOM

RECURSIVE PayloadSize(_)
\* sum over the strings of (1 + length)
PayloadSize(strs) ==
  IF strs = << >> THEN 0 ELSE 1 + Len(Head(strs)) + PayloadSize(Tail(strs))

RECURSIVE PackSegments(_)
PackSegments(segs) ==
  IF segs = << >> THEN << >>
  ELSE <<Len(Head(segs))>> \o Head(segs) \o PackSegments(Tail(segs))

\* [command][payload_length][len_0][bytes_0]...[checksum if with_checksum]
Pack(command, segs, with_checksum) ==
  LET body == <<command, PayloadSize(segs)>> \o PackSegments(segs)
  IN IF with_checksum THEN Append(body, SumBytes(body, Len(body))) ELSE body

\* segment lists that fit a frame: each length <= 255, payload <= 255
SegmentLists ==
  {segs \in ListsUpTo(Strings, MaxFields) :
     /\ \A k \in 1..Len(segs) : Len(segs[k]) <= 255
     /\ PayloadSize(segs) <= 255}

\* byte with bit number bit (0..7) inverted
FlipBit(byte, bit) ==
  IF (byte \div (2 ^ bit)) % 2 = 1 THEN byte - 2 ^ bit ELSE byte + 2 ^ bit

\* a frame the decoder took: it returned, and not a sentinel
Accepted(d) == d.returned /\ d.command # UNKNOWN /\ d.command # BAD_CHECKSUM

Init ==
  /\ wide_index \in BOOLEAN
  /\ call = IdleCall
  /\ req = IdleReq /\ res = IdleRes
  /\ position = 0 /\ buffer = << >> /\ last = IdleLast /\ resync = 0

notCodec == <<wide_index, call, position, buffer, last, resync>>

\* parse_improv_data(frame, check)
Decode ==
  /\ req.op = "idle"
  /\ \E frame \in FramesUpTo(MaxFrameLen) \cup LongFrames \cup LongBadFrames,
        check \in BOOLEAN :
       /\ req' = [IdleReq EXCEPT !.op = "decode", !.frame = frame, !.check = check]
       /\ res' = [IdleRes EXCEPT
                    !.decoded = parse_improv_data(frame, Len(frame), check, wide_index)]
  /\ UNCHANGED notCodec

\* one bit of an accepted checksummed frame is inverted and the frame is
\* decoded again
Flip ==
  /\ req.op = "decode" /\ req.check /\ Accepted(res.decoded)
  /\ \E index \in 0..(Len(req.frame) - 1), bit \in 0..7 :
       LET frame == [req.frame EXCEPT ![index + 1] = FlipBit(@, bit)]
       IN /\ req' = [req EXCEPT !.op = "flip", !.frame = frame,
                                !.index = index, !.bit = bit]
          /\ res' = [res EXCEPT
                       !.before = res.decoded,
                       !.decoded = parse_improv_data(frame, Len(frame), TRUE, wide_index)]
  /\ UNCHANGED notCodec

\* a packed segment frame is decoded
DecodeSegments ==
  /\ req.op = "idle"
  /\ \E command \in {WIFI_SETTINGS, CUSTOM}, segs \in SegmentLists,
        with_checksum \in BOOLEAN :
       LET frame == Pack(command, segs, with_checksum)
       IN /\ req' = [IdleReq EXCEPT !.op = "segments", !.frame = frame,
                                    !.check = with_checksum,
                                    !.command = command, !.datum = segs]
          /\ res' = [IdleRes EXCEPT
                       !.decoded = parse_improv_data(frame, Len(frame), with_checksum,
                                                     wide_index)]
  /\ UNCHANGED notCodec

\* build_rpc_response(command, datum, add_checksum)
Encode ==
  /\ req.op = "idle"
  /\ \E command \in Commands, datum \in ListsUpTo(Strings, MaxFields),
        add_checksum \in BOOLEAN :
       /\ req' = [IdleReq EXCEPT !.op = "encode", !.command = command,
                                 !.datum = datum, !.add_checksum = add_checksum]
       /\ res' = [IdleRes EXCEPT
                    !.out = build_rpc_response(command, datum, add_checksum)]
  /\ UNCHANGED notCodec

\* parse_improv_data(build_rpc_response(command, datum, true), true)
RoundTrip ==
  /\ req.op = "encode" /\ req.add_checksum
  /\ req' = [req EXCEPT !.op = "roundtrip", !.frame = res.out, !.check = TRUE]
  /\ res' = [res EXCEPT
               !.decoded = parse_improv_data(res.out, Len(res.out), TRUE, wide_index)]
  /\ UNCHANGED notCodec

Next == Decode \/ Flip \/ DecodeSegments \/ Encode \/ RoundTrip

Spec == Init /\ [][Next]_vars

(* ------------------------------------------------------------------ *)
(* SpecStream: the transport feeds the stream to                      *)
(* parse_improv_serial_byte one byte at a time.  It keeps the byte    *)
(* and advances position when the call returns true; it drops its     *)
(* history and starts again at position 0 when the call returns       *)
(* false.                                                             *)
(* ------------------------------------------------------------------ *)
\* largest length byte (position 8) the transport is fed
MaxDataLen == 4

TypeBytes == {1, TYPE_RPC}
PayloadBytes == {UNKNOWN, WIFI_SETTINGS, GET_CURRENT_STATE, CUSTOM}

\* the bytes that may arrive at a position: the expected one and wrong ones
\* in the preamble, then any type, any length up to MaxDataLen, any payload
\* byte, and the byte that is the checksum of the history
StreamBytes(pos, history) ==
  IF pos = 0 THEN {73, 77, 80, 82, 79, 86, 88}
  ELSE IF pos <= 6 THEN {Preamble[pos + 1], 88, 73}
  ELSE IF pos = 7 THEN TypeBytes
  ELSE IF pos = 8 THEN 0..MaxDataLen
  ELSE PayloadBytes \cup {SumBytes(history, Len(history))}

\* what may lie in memory behind the history: the incoming byte, if the
\* transport stored it before the call, or anything else
BehindBytes(byte) == {byte, WIFI_SETTINGS}

\* X M P R O V: a preamble with a wrong first byte
Noise == <<88, 77, 80, 82, 79, 86>>

\* where in a frame the next byte falls
Stage ==
  IF position <= 8 THEN "head"
  ELSE IF position <= 8 + At(buffer, 8) THEN "payload"
  ELSE IF position = 9 + At(buffer, 8) THEN "checksum"
  ELSE "after"

\* resync after the byte is fed: 1..6 count the bytes of Noise fed in a row
\* at position 0; 6 lasts while the bytes after them are kept, and becomes 7
\* with the call at the checksum position; anything else gives 0
Resynced(byte, ret) ==
  IF position = 0 /\ byte = Noise[1] THEN 1
  ELSE IF position = 0 /\ resync \in 1..5 /\ byte = Noise[resync + 1] THEN resync + 1
  ELSE IF resync = 6 /\ Stage = "checksum" THEN 7
  ELSE IF resync = 6 /\ ret THEN 6
  ELSE 0

\* parse_improv_serial_byte decodes with check_checksum false, so the
\* checksum loop of parse_improv_data, all that wide_index bears on, is not run
InitStream ==
  /\ wide_index = FALSE
  /\ call = IdleCall
  /\ req = IdleReq /\ res = IdleRes
  /\ position = 0 /\ buffer = << >> /\ last = IdleLast /\ resync = 0

Serve(byte, behind, callback_result) ==
  LET r == parse_improv_serial_byte(position, byte, buffer \o behind,
                                    callback_result, wide_index)
  IN /\ last' = [called |-> TRUE, position |-> position, byte |-> byte,
                 buffer |-> buffer, callback_result |-> callback_result,
                 ret |-> r.ret, callback |-> r.callback,
                 on_error |-> r.on_error, reads |-> r.reads]
     /\ IF r.ret
          THEN buffer' = Append(buffer, byte) /\ position' = position + 1
          ELSE buffer' = << >> /\ position' = 0
     /\ resync' = Resynced(byte, r.ret)
     /\ UNCHANGED <<wide_index, call, req, res>>

\* a byte arrives in the preamble, the header or the payload
FeedByte ==
  /\ Stage \in {"head", "payload"}
  /\ \E byte \in StreamBytes(position, buffer) : Serve(byte, <<byte, byte>>, FALSE)

\* a byte arrives at the checksum position
FeedChecksum ==
  /\ Stage = "checksum"
  /\ \E byte \in StreamBytes(position, buffer), callback_result \in BOOLEAN :
       \E b1, b2 \in (IF At(buffer, 8) < 2 THEN BehindBytes(byte) ELSE {byte}) :
         Serve(byte, <<b1, b2>>, callback_result)

\* a byte arrives after a frame whose callback returned true
FeedAfterFrame ==
  /\ Stage = "after"
  /\ \E byte \in StreamBytes(position, buffer) \cup {Preamble[1]} : Serve(byte, <<byte, byte>>, FALSE)

NextStream == FeedByte \/ FeedChecksum \/ FeedAfterFrame

SpecStream == InitStream /\ [][NextStream]_vars

(* ------------------------------------------------------------------ *)
(* Properties of parse_improv_data and build_rpc_response (Spec).     *)
(* ------------------------------------------------------------------ *)
Sentinel(command) == command = UNKNOWN \/ command = BAD_CHECKSUM

Decoding == req.op \in {"decode", "flip", "segments", "roundtrip"}

\* the length the frame's byte 1 has to declare
ExpectedLength(frame, check) == Len(frame) - 2 - (IF check THEN 1 ELSE 0)

\* C2: whenever parse_improv_data returns UNKNOWN or BAD_CHECKSUM, the data
\* list it returns is empty, also when a segment-framing violation follows
\* segments that were already parsed.
C2_SentinelHasNoData ==
  (Decoding /\ res.decoded.returned /\ Sentinel(res.decoded.command))
    => res.decoded.data = << >>

\* C5: a frame of length >= 2 whose byte 1 differs from
\* length - 2 - (check_checksum ? 1 : 0) decodes to UNKNOWN with empty data,
\* whatever its other bytes are.
C5_LengthMismatchIsUnknown ==
  (req.op = "decode" /\ At(req.frame, 1) # ExpectedLength(req.frame, req.check))
    => /\ res.decoded.returned
       /\ res.decoded.command = UNKNOWN
       /\ res.decoded.data = << >>

\* C5 happens: a two-byte frame tagged WIFI_SETTINGS, decoded with
\* check_checksum (expected length -1), and a five-byte segment frame that
\* declares one byte too few
C5_Witness ==
  /\ req.op = "decode" /\ res.decoded.command = UNKNOWN
  /\ \/ req.check /\ Len(req.frame) = 2 /\ At(req.frame, 0) = WIFI_SETTINGS
     \/ ~req.check /\ Len(req.frame) = 5 /\ At(req.frame, 0) = CUSTOM
          /\ At(req.frame, 1) = 2

\* C6 as stated: inverting any one bit of any byte of an accepted checksummed
\* frame makes the decoder return BAD_CHECKSUM.
C6_AnyFlipIsBadChecksum ==
  req.op = "flip" => (res.decoded.returned /\ res.decoded.command = BAD_CHECKSUM)

\* C6 amended: inverting one bit of the command byte, of a payload byte or of
\* the checksum byte of an accepted checksummed frame makes the decoder
\* return BAD_CHECKSUM; inverting one bit of the length byte (byte 1) makes
\* it return UNKNOWN, the length check coming first.  No data either way.
C6_FlipIsRejected ==
  req.op = "flip" =>
    /\ res.decoded.returned
    /\ res.decoded.command = (IF req.index = 1 THEN UNKNOWN ELSE BAD_CHECKSUM)
    /\ res.decoded.data = << >>

\* C6 happens: a payload bit of an accepted WIFI_SETTINGS frame was inverted
C6_Witness ==
  /\ req.op = "flip" /\ req.index >= 2 /\ req.index < Len(req.frame) - 1
  /\ res.before.command = WIFI_SETTINGS /\ Len(res.before.data) > 0
  /\ res.decoded.command = BAD_CHECKSUM

\* C7: for a single-value command and fields of at most 255 bytes each,
\* decoding the checksummed response returns that command with empty data,
\* also when the fields' cumulative size exceeds 255.
C7_RoundTrip ==
  (/\ req.op = "roundtrip" /\ SingleValue(req.command)
   /\ \A k \in 1..Len(req.datum) : Len(req.datum[k]) <= 255)
    => /\ res.decoded.returned
       /\ res.decoded.command = req.command
       /\ res.decoded.data = << >>

\* C8: a packed WIFI_SETTINGS or CUSTOM frame (segments of at most 255
\* bytes, payload at most 255), with or without its checksum byte, decodes
\* to that command and the original segments in order.
C8_SegmentRoundTrip ==
  req.op = "segments" =>
    /\ res.decoded.returned
    /\ res.decoded.command = req.command
    /\ res.decoded.data = req.datum

\* C9: the output of build_rpc_response has the checksum byte only if it was
\* requested: its length is 2 + sum of (1 + field length) + (1 if
\* add_checksum); without it the last byte is the last byte of the last
\* field and byte 1 equals the output length - 2.
C9_ChecksumByteOnlyIfRequested ==
  req.op = "encode" =>
    LET n == Len(req.datum)
    IN /\ Len(res.out) = 2 + PayloadSize(req.datum)
                           + (IF req.add_checksum THEN 1 ELSE 0)
       /\ ~req.add_checksum =>
            /\ At(res.out, 1) = U8(Len(res.out) - 2)
            /\ (n > 0 /\ req.datum[n] # << >>) =>
                 res.out[Len(res.out)] = req.datum[n][Len(req.datum[n])]

\* offset in the output of the length byte of field j
FieldOffset(datum, j) == 2 + PayloadSize(SubSeq(datum, 1, j - 1))

\* C10: byte 0 is the command, byte 1 the sum of (1 + field length) modulo
\* 256, then each field in order as its length modulo 256 and its bytes; with
\* add_checksum the last byte is the sum of all bytes before it modulo 256.
C10_Layout ==
  req.op = "encode" =>
    /\ At(res.out, 0) = req.command
    /\ At(res.out, 1) = PayloadSize(req.datum) % 256
    /\ \A j \in 1..Len(req.datum) :
         LET off == FieldOffset(req.datum, j)
         IN /\ At(res.out, off) = Len(req.datum[j]) % 256
            /\ \A k \in 1..Len(req.datum[j]) :
                 At(res.out, off + k) = req.datum[j][k]
    /\ req.add_checksum =>
         res.out[Len(res.out)] = SumBytes(res.out, Len(res.out) - 1)

\* C10 happens: two fields, one of 256 bytes, built with the checksum
C10_Witness ==
  /\ req.op = "encode" /\ req.add_checksum
  /\ Len(req.datum) = 2 /\ Len(req.datum[1]) = 256 /\ Len(req.datum[2]) = 2
  /\ At(res.out, 2) = 0 /\ At(res.out, 259) = 2

(* ------------------------------------------------------------------ *)
(* Properties of parse_improv_serial_byte (SpecStream).               *)
(* ------------------------------------------------------------------ *)
\* the last call was the checksum byte of the stream
\* I M P R O V <version> <TYPE_RPC> <payload> <checksum>
FrameCall(payload) ==
  /\ last.called
  /\ last.buffer = Preamble \o <<TYPE_RPC, Len(payload)>> \o payload
  /\ last.position = Len(last.buffer)
  /\ last.byte = SumBytes(last.buffer, Len(last.buffer))

Delivered(command, data) == <<[command |-> command, data |-> data]>>

\* C1 as stated: after I M P R O V <version> <TYPE_RPC> 0x01 <cmd_byte>
\* <checksum>, for a single-value cmd_byte, the success callback is invoked
\* with command cmd_byte and empty data.
C1_EndToEnd ==
  \A cmd_byte \in PayloadBytes :
    (SingleValue(cmd_byte) /\ FrameCall(<<cmd_byte>>))
      => last.callback = Delivered(cmd_byte, << >>)

\* C1 amended: after that stream the success callback is invoked once, with
\* command UNKNOWN and empty data, whatever cmd_byte is (a one-byte payload
\* has no inner length byte), on_error is not invoked and the call returns
\* the callback's result; the callback receives cmd_byte with empty data
\* after the stream I M P R O V <version> <TYPE_RPC> 0x02 <cmd_byte> 0x00
\* <checksum>.
C1_EndToEndInnerLength ==
  \A cmd_byte \in PayloadBytes :
    /\ FrameCall(<<cmd_byte>>)
         => /\ last.callback = Delivered(UNKNOWN, << >>)
            /\ last.on_error = << >>
            /\ last.ret = last.callback_result
    /\ (SingleValue(cmd_byte) /\ FrameCall(<<cmd_byte, 0>>))
         => /\ last.callback = Delivered(cmd_byte, << >>)
            /\ last.on_error = << >>
            /\ last.ret = last.callback_result

\* C1 happens: the stream with data_len 0x01 and cmd_byte GET_CURRENT_STATE
\* was fed to its checksum byte
C1_Witness ==
  /\ FrameCall(<<GET_CURRENT_STATE>>)
  /\ last.position = 10
  /\ last.callback = Delivered(UNKNOWN, << >>)

\* C4: a call reads the history buffer at indices strictly below position
\* only, the reads of the delegated parse_improv_data call included, for
\* every data_len.
C4_ReadsBelowPosition ==
  last.called => \A k \in last.reads : k < last.position

(* ------------------------------------------------------------------ *)
(* Truncated segments and checksum mismatch (Spec).                   *)
(* ------------------------------------------------------------------ *)
\* the frame's payload region is [2, limit)
PayloadLimit(frame, check) == Len(frame) - (IF check THEN 1 ELSE 0)

RECURSIVE EndsMidSegment(_, _, _, _)
\* walking the segments from offset pos, at most depth of them: a segment
\* length byte is larger than the number of payload bytes that follow it
EndsMidSegment(frame, pos, limit, depth) ==
  IF pos >= limit \/ depth = 0 THEN FALSE
  ELSE IF At(frame, pos) > limit - pos - 1 THEN TRUE
  ELSE EndsMidSegment(frame, pos + 1 + At(frame, pos), limit, depth - 1)

\* the checksum byte of the frame is the sum of the bytes before it
ChecksumValid(frame) == frame[Len(frame)] = SumBytes(frame, Len(frame) - 1)

\* a WIFI_SETTINGS or CUSTOM frame, its declared length right, its checksum
\* (if verified) right, whose payload ends in the middle of a segment
Truncated(frame, check) ==
  /\ At(frame, 0) \in {WIFI_SETTINGS, CUSTOM}
  /\ At(frame, 1) = ExpectedLength(frame, check)
  /\ check => ChecksumValid(frame)
  /\ EndsMidSegment(frame, 2, PayloadLimit(frame, check), MaxFrameLen)

\* C11: a truncated segment frame decodes to UNKNOWN, and every call on a
\* buffer of length >= 2 reads indices below length only, the segment loop
\* indices below length - 1 when a checksum byte is present.
C11_TruncatedSegmentSafety ==
  req.op = "decode" =>
    /\ Truncated(req.frame, req.check)
         => (res.decoded.returned /\ res.decoded.command = UNKNOWN)
    /\ \A k \in res.decoded.reads : k < Len(req.frame)
    /\ \A k \in res.decoded.segment_reads : k < PayloadLimit(req.frame, req.check)

Fed == last.buffer \o <<last.byte>>

\* the last call was at the checksum position
AtChecksum ==
  /\ last.called
  /\ last.position > 8
  /\ last.position = 9 + At(last.buffer, 8)

\* the checksum the last call's byte is compared with
StreamSum == SumBytes(last.buffer, Len(last.buffer))

\* Fed is the start of 'IMPROV' + version + TYPE_RPC + data_len + payload +
\* checksum with payload = command + inner_length + inner_payload and
\* inner_length = data_len - 2
WellFormedPrefix ==
  /\ last.called
  /\ last.position = Len(last.buffer)
  /\ \A k \in 1..Len(Fed) : k <= 7 => Fed[k] = Preamble[k]
  /\ Len(Fed) >= 8 => Fed[8] = TYPE_RPC
  /\ Len(Fed) >= 9 => (Fed[9] >= 2 /\ Len(Fed) <= 10 + Fed[9])
  /\ Len(Fed) >= 11 => Fed[11] = Fed[9] - 2
  /\ (Len(Fed) >= 9 /\ Len(Fed) = 10 + Fed[9]) => last.byte = StreamSum

\* the payload of the frame whose checksum byte the last call got
FedPayload == SubSeq(last.buffer, 10, Len(last.buffer))

\* the segments of a WIFI_SETTINGS or CUSTOM payload fill it exactly
SegmentsFit(payload) ==
  ~EndsMidSegment(payload, 2, Len(payload), Len(payload))

\* C12: feeding a well-formed frame from position 0, every call before the
\* last returns true and invokes no callback; the last call invokes the
\* success callback once with parse_improv_data(payload, data_len, false),
\* which is the embedded command with no data for a single-value command and
\* the command with its segments in wire order for WIFI_SETTINGS and CUSTOM,
\* does not invoke on_error and returns the callback's result.
C12_WellFormedFrameDelivered ==
  WellFormedPrefix =>
    IF Len(Fed) < 9 \/ Len(Fed) < 10 + Fed[9]
      THEN last.ret /\ last.callback = << >> /\ last.on_error = << >>
      ELSE
        LET payload == FedPayload
            parsed == parse_improv_data(payload, Len(payload), FALSE, wide_index)
        IN /\ last.callback = Delivered(parsed.command, parsed.data)
           /\ last.on_error = << >>
           /\ last.ret = last.callback_result
           /\ SingleValue(payload[1])
                => last.callback = Delivered(payload[1], << >>)
           /\ (~SingleValue(payload[1]) /\ SegmentsFit(payload))
                => /\ last.callback[1].command = payload[1]
                   /\ PackSegments(last.callback[1].data)
                        = SubSeq(payload, 3, Len(payload))

\* C12 happens: the frame with payload WIFI_SETTINGS 2 1 CUSTOM was fed to
\* its checksum byte and its one segment was delivered
C12_Witness ==
  /\ WellFormedPrefix
  /\ FedPayload = <<WIFI_SETTINGS, 2, 1, CUSTOM>>
  /\ last.position = 13
  /\ last.callback = Delivered(WIFI_SETTINGS, <<<<CUSTOM>>>>)

\* a payload command + inner_length + inner_payload whose segments, if the
\* command has segments, fill the inner payload
ValidPayload(payload) ==
  /\ Len(payload) >= 2
  /\ payload[2] = Len(payload) - 2
  /\ SingleValue(payload[1]) \/ SegmentsFit(payload)

\* C13: each byte of X M P R O V fed at position 0 is rejected without a
\* callback and leaves position 0 and an empty history; the bytes of the
\* frame that follows invoke no callback before its checksum position, and
\* at the checksum byte of a valid RPC frame the success callback is invoked
\* once with the frame's command.
C13_Resync ==
  /\ (last.called /\ resync \in 1..6 /\ last.position = 0
        /\ last.byte = Noise[resync])
       => /\ ~last.ret /\ last.callback = << >> /\ last.on_error = << >>
          /\ position = 0 /\ buffer = << >>
  /\ resync = 6 => (last.callback = << >> /\ last.on_error = << >>)
  /\ (resync = 7 /\ FrameCall(FedPayload) /\ ValidPayload(FedPayload))
       => /\ Len(last.callback) = 1
          /\ last.callback[1].command = FedPayload[1]
          /\ last.on_error = << >>

\* C13 happens: X M P R O V, then the frame with payload GET_CURRENT_STATE 0
\* up to its checksum byte
C13_Witness ==
  /\ resync = 7
  /\ FrameCall(<<GET_CURRENT_STATE, 0>>)
  /\ last.callback = Delivered(GET_CURRENT_STATE, << >>)

\* C14: on_error is invoked exactly in the calls at position 9 + buffer[8]
\* whose byte differs from the sum of buffer[0 .. position - 1], and then
\* once, with ERROR_INVALID_RPC, returning false with no success callback; a
\* mismatch at positions 0..6 returns false with neither callback; no call
\* invokes both.
C14_ChecksumErrorDistinct ==
  last.called =>
    /\ last.on_error # << >> <=> (AtChecksum /\ last.byte # StreamSum)
    /\ last.on_error # << >>
         => /\ last.on_error = <<ERROR_INVALID_RPC>>
            /\ ~last.ret
            /\ last.callback = << >>
    /\ (last.position <= 6 /\ last.byte # Preamble[last.position + 1])
         => (~last.ret /\ last.callback = << >> /\ last.on_error = << >>)
    /\ ~(last.callback # << >> /\ last.on_error # << >>)

\* C14 happens: a wrong checksum byte at position 11 was reported
C14_Witness ==
  /\ AtChecksum
  /\ last.position = 11
  /\ last.byte # StreamSum
  /\ last.on_error = <<ERROR_INVALID_RPC>>

\* C16: a matching checksum byte of a frame whose type is not TYPE_RPC
\* invokes neither callback and returns false.
C16_NonRpcDropped ==
  (AtChecksum /\ last.byte = StreamSum /\ At(last.buffer, 7) # TYPE_RPC)
    => (~last.ret /\ last.callback = << >> /\ last.on_error = << >>)

\* C16 happens: the right checksum byte of a type 1 frame of two payload
\* bytes was fed
C16_Witness ==
  /\ AtChecksum
  /\ last.byte = StreamSum
  /\ At(last.buffer, 7) = 1
  /\ At(last.buffer, 8) = 2
  /\ ~last.ret

\* the last call was beyond the checksum position
Beyond ==
  /\ last.called
  /\ last.position > 8
  /\ last.position > 9 + At(last.buffer, 8)

\* C17: a call beyond the checksum position returns false and invokes
\* neither callback, so the byte that follows an accepted frame is rejected
\* and the next byte is at position 0 of an empty history.
C17_ByteAfterFrameRejected ==
  Beyond =>
    /\ ~last.ret /\ last.callback = << >> /\ last.on_error = << >>
    /\ position = 0 /\ buffer = << >>

\* C17 happens: 'I' was fed right after an accepted frame with payload
\* GET_CURRENT_STATE 0
C17_Witness ==
  /\ Beyond
  /\ last.position = 12
  /\ last.byte = Preamble[1]
  /\ SubSeq(last.buffer, 1, 11) = Preamble \o <<TYPE_RPC, 2, GET_CURRENT_STATE, 0>>
  /\ last.buffer[12] = SumBytes(last.buffer, 11)

====
